---- MODULE Spec2Model ----
(***************************************************************************)
(* Model of src/app.py: the RapidAPI dispatcher (fetch_from_rapidapi), its *)
(* process-wide rate gate (rate_limit / last_call_time) and the credential *)
(* resolution of the route handlers.                                       *)
(*                                                                         *)
(* Time is discrete, one tick = 0.2 s, so that min_interval (1.2 s) and    *)
(* the backoff 2^attempt seconds are both whole numbers of ticks.          *)
(* time.sleep(d) returns at any moment not earlier than d after the call;  *)
(* a network call and the scheduler's delay between two statements last    *)
(* any number of ticks.                                                    *)
(*                                                                         *)
(* Times are kept relative to the present instant (time.time() is 0 in     *)
(* every state, and Tick shifts every stored time by one): last_call_time  *)
(* = -3 says the last stamp was taken 3 ticks ago. The code reads          *)
(* last_call_time only through elapsed < min_interval and min_interval -   *)
(* elapsed, so a timestamp min_interval old or older is kept as            *)
(* -MinInterval. This makes the state space finite with no horizon on the  *)
(* clock, and a thread serves any number of requests one after another, so *)
(* the model has no numeric bound: its size is set by the input sets.      *)
(***************************************************************************)
EXTENDS Integers, Sequences, FiniteSets, TLC

\* --------------------------------------------------------------- constants
\* min_interval=1.2 (seconds) of rate_limit, in ticks.
MinInterval == 6
\* range(3): the attempt ceiling.
MaxAttemptsFour == 3 + 1
MaxAttempts == 3

\* Worker threads serving requests (FastAPI runs `def` routes in a thread
\* pool, `async def` routes on the event loop).
Threads == {"t1", "t2"}
\* The one caller of the sequential specification.
MainThread == "t1"

Routes == {"profile", "posts", "comments", "company", "analytics", "reactions"}

\* request.headers.get("x-rapidapi-key"): absent (Python None), empty, a key.
None == "<None>"
HeaderValues == {None, "", "hdr-key"}
\* os.getenv("RAPIDAPI_KEY", ""): unset/empty or configured.
EnvValues == {"", "env-key"}

\* Decoded JSON bodies of a 200 response: falsy ones and payloads.
FalsyData == {"null", "{}", "[]"}
Payloads == {"P1", "P2"}
\* Error statuses other than 429: a 4xx and a 5xx.
ErrorStatuses == {404, 500}
\* What one outbound call can meet: a response (status, decoded body), or a
\* network-level failure (requests.get raises ConnectionError/Timeout).
NetworkError == [status |-> 0, data |-> "null"]
Responses ==
    {[status |-> 200, data |-> d] : d \in FalsyData \cup Payloads}
    \cup {[status |-> s, data |-> "null"] : s \in {429} \cup ErrorStatuses}
Replies == Responses \cup {NetworkError}

NoResult == [status |-> 0, body |-> "pending"]
\* comment_analytics has not returned.
NoSummary == [success |-> FALSE, error |-> "pending"]

VARIABLES
    RAPIDAPI_KEY,   \* module global, line 36
    last_call_time, \* module global, line 42 (relative to now)
    pc,             \* per thread: where the thread is in the code
    route,          \* per thread: the route being served
    header,         \* per thread: the request's x-rapidapi-key header
    key_to_use,     \* per thread: local of fetch_from_rapidapi
    attempt,        \* per thread: loop variable of fetch_from_rapidapi
    wake,           \* per thread: ticks left before the current sleep may return
    outcomes,       \* per thread: replies met by the outbound calls so far
    gates,          \* per thread: rate_limit calls that returned
    slept,          \* per thread: backoff requested so far (ticks)
    result,         \* per thread: what fetch_from_rapidapi returned or raised
    stamp_gap,      \* observer: gap between the two latest last_call_time
    post_url,       \* get_comments / comment_analytics: the post_url parameter
    clean_url,      \* get_comments / comment_analytics: local clean_url
    url_pc,         \* whether clean_url has been computed
    comments,       \* comment_analytics: local comments
    summary         \* comment_analytics: the value returned

vars == <<RAPIDAPI_KEY, last_call_time, pc, route, header, key_to_use,
          attempt, wake, outcomes, gates, slept, result, stamp_gap,
          post_url, clean_url, url_pc, comments, summary>>

url_vars == <<post_url, clean_url, url_pc>>
analytics_vars == <<comments, summary>>
dispatcher_vars == <<RAPIDAPI_KEY, last_call_time, pc, route, header, key_to_use,
                     attempt, wake, outcomes, gates, slept, result, stamp_gap>>

gate_vars == <<last_call_time, stamp_gap>>
req_vars == <<route, header, key_to_use>>

\* time.time(), in the relative frame.
Now == 0
\* The oldest age the model tells apart.
Floor == 0 - MinInterval
\* A stored time one tick later.
Shift(x) == IF x - 1 < Floor THEN Floor ELSE x - 1
\* A sleep's remaining time one tick later.
Elapse(w) == IF w > 0 THEN w - 1 ELSE 0

\* ----------------------------------------------------------------- helpers
\* Python truthiness of a str-or-None value.
Truthy(x) == x \notin {None, ""}
\* a or b
Or(a, b) == IF Truthy(a) THEN a ELSE b

\* The third argument each route handler passes to fetch_from_rapidapi.
HandlerKey(r, h) ==
    IF r = "reactions"
    THEN (IF h = None THEN RAPIDAPI_KEY ELSE h)   \* headers.get(k, RAPIDAPI_KEY)
    ELSE h                                        \* headers.get(k)

\* key_to_use = rapidapi_key or RAPIDAPI_KEY
KeyAsPassed(rapidapi_key) == rapidapi_key
KeyToUse(rapidapi_key) == Or(rapidapi_key, RAPIDAPI_KEY)

\* if not key_to_use
MissingKeyNoneOnly(k) == k = None
MissingKey(k) == ~Truthy(k)

\* if elapsed < min_interval
TooSoon(elapsed) == elapsed < MinInterval

\* sleep_for = min_interval - elapsed
SleepForShort(elapsed) == MinInterval - elapsed - 1
SleepFor(elapsed) == MinInterval - elapsed

\* rate_limit takes no lock: a thread at line 76 enters it at once.
GateHeldDuringCall(t) == \A u \in Threads \ {t} : pc[u] # "inflight"
GateOpen(t) == TRUE

\* wait = 2 ** attempt (seconds), in ticks
BackoffFlat(a) == 5
BackoffOneBased(a) == 5 * (2 ^ (a + 1))
Backoff(a) == 5 * (2 ^ a)

\* res.raise_for_status(): raises HTTPError for 4xx and 5xx
RaiseForServerErrors(status) == status >= 500
RaiseForStatus(status) == status >= 400

\* if not data
IsNull(data) == data = "null"
Falsy(data) == data \in FalsyData

\* if attempt == 2
LastAttemptEarly(a) == a = 1
LastAttempt(a) == a = 2

\* raise HTTPException(status_code=429, ...) after the loop
QuotaAsServerError == [status |-> 500, body |-> "RapidAPI quota exceeded."]
QuotaExceeded == [status |-> 429, body |-> "RapidAPI quota exceeded."]

\* `async def` handlers run on the event loop and block it while they run:
\* no other request is started until they return.
EventLoopFree ==
    \A u \in Threads : ~(route[u] = "reactions" /\ pc[u] \notin {"idle", "done"})

\* -------------------------------------------------------------------- Init
InitDispatcher ==
    /\ RAPIDAPI_KEY \in EnvValues
    /\ last_call_time = Floor      \* 0, the epoch: long ago
    /\ pc = [t \in Threads |-> "idle"]
    /\ route = [t \in Threads |-> "profile"]
    /\ header = [t \in Threads |-> None]
    /\ key_to_use = [t \in Threads |-> ""]
    /\ attempt = [t \in Threads |-> 0]
    /\ wake = [t \in Threads |-> 0]
    /\ outcomes = [t \in Threads |-> <<>>]
    /\ gates = [t \in Threads |-> 0]
    /\ slept = [t \in Threads |-> 0]
    /\ result = [t \in Threads |-> NoResult]
    /\ stamp_gap = MinInterval

\* No URL is being normalized.
InitUrlIdle ==
    /\ post_url = <<>>
    /\ clean_url = <<>>
    /\ url_pc = "idle"

\* No comment list is being analysed.
InitAnalyticsIdle ==
    /\ comments = <<>>
    /\ summary = NoSummary

Init == InitDispatcher /\ InitUrlIdle /\ InitAnalyticsIdle

\* ----------------------------------------------------------------- actions
\* Time passes: one tick.
Tick ==
    /\ UNCHANGED <<url_vars, analytics_vars>>
    /\ last_call_time' = Shift(last_call_time)
    /\ wake' = [t \in Threads |-> Elapse(wake[t])]
    /\ UNCHANGED <<RAPIDAPI_KEY, pc, route, header, key_to_use, attempt,
                   outcomes, gates, slept, result, stamp_gap>>

\* A request for route r with header h arrives and its handler runs up to the
\* retry loop of fetch_from_rapidapi (lines 62-72). blank: the reactions
\* route's post_url is blank after strip().
Dispatch(t, r, h, blank) ==
    /\ UNCHANGED <<url_vars, analytics_vars>>
    /\ pc[t] = "idle"
    /\ EventLoopFree
    /\ route' = [route EXCEPT ![t] = r]
    /\ header' = [header EXCEPT ![t] = h]
    /\ IF r = "reactions" /\ blank
       THEN /\ result' = [result EXCEPT ![t] = [status |-> 400, body |-> "Missing post_url"]]
            /\ pc' = [pc EXCEPT ![t] = "done"]
            /\ UNCHANGED key_to_use
       ELSE LET k == KeyToUse(HandlerKey(r, h)) IN
            /\ key_to_use' = [key_to_use EXCEPT ![t] = k]
            /\ IF MissingKey(k)
               THEN /\ result' = [result EXCEPT ![t] = [status |-> 400, body |-> "Missing RapidAPI key."]]
                    /\ pc' = [pc EXCEPT ![t] = "done"]
               ELSE /\ pc' = [pc EXCEPT ![t] = "rate_limit"]
                    /\ UNCHANGED result
    /\ UNCHANGED <<RAPIDAPI_KEY, gate_vars, attempt, wake, outcomes,
                   gates, slept>>

\* rate_limit, lines 47-52: read the clock and last_call_time, decide to sleep.
RateLimitCheck(t) ==
    /\ UNCHANGED <<url_vars, analytics_vars>>
    /\ pc[t] = "rate_limit"
    /\ GateOpen(t)
    /\ LET elapsed == Now - last_call_time IN
       IF TooSoon(elapsed)
       THEN /\ wake' = [wake EXCEPT ![t] = SleepFor(elapsed)]
            /\ pc' = [pc EXCEPT ![t] = "sleeping"]
       ELSE /\ pc' = [pc EXCEPT ![t] = "stamp"]
            /\ UNCHANGED wake
    /\ UNCHANGED <<RAPIDAPI_KEY, gate_vars, req_vars, attempt, outcomes,
                   gates, slept, result>>

\* time.sleep(sleep_for) returns, line 52.
RateLimitWake(t) ==
    /\ UNCHANGED <<url_vars, analytics_vars>>
    /\ pc[t] = "sleeping"
    /\ wake[t] = 0
    /\ pc' = [pc EXCEPT ![t] = "stamp"]
    /\ UNCHANGED <<RAPIDAPI_KEY, gate_vars, req_vars, attempt, wake,
                   outcomes, gates, slept, result>>

\* last_call_time = time.time(), line 53; rate_limit returns.
RateLimitStamp(t) ==
    /\ UNCHANGED <<url_vars, analytics_vars>>
    /\ pc[t] = "stamp"
    /\ last_call_time' = Now
    /\ stamp_gap' = Now - last_call_time
    /\ gates' = [gates EXCEPT ![t] = @ + 1]
    /\ pc' = [pc EXCEPT ![t] = "send"]
    /\ UNCHANGED <<RAPIDAPI_KEY, req_vars, attempt, wake, outcomes,
                   slept, result>>

\* requests.get(...) is issued, line 78: the outbound call begins.
SendRequest(t) ==
    /\ UNCHANGED <<url_vars, analytics_vars>>
    /\ pc[t] = "send"
    /\ pc' = [pc EXCEPT ![t] = "inflight"]
    /\ UNCHANGED <<RAPIDAPI_KEY, gate_vars, req_vars, attempt, wake,
                   outcomes, gates, slept, result>>

\* The loop moves on after attempt a (continue, or the except clause falling
\* through): the next attempt, or line 97 once range(3) is exhausted.
NextAttemptSkipsGate(t) ==
    /\ attempt' = [attempt EXCEPT ![t] = @ + 1]
    /\ IF attempt[t] + 1 < MaxAttempts
       THEN /\ pc' = [pc EXCEPT ![t] = "send"]
            /\ UNCHANGED result
       ELSE /\ pc' = [pc EXCEPT ![t] = "done"]
            /\ result' = [result EXCEPT ![t] = QuotaExceeded]
NextAttempt(t) ==
    /\ attempt' = [attempt EXCEPT ![t] = @ + 1]
    /\ IF attempt[t] + 1 < MaxAttempts
       THEN /\ pc' = [pc EXCEPT ![t] = "rate_limit"]
            /\ UNCHANGED result
       ELSE /\ pc' = [pc EXCEPT ![t] = "done"]
            /\ result' = [result EXCEPT ![t] = QuotaExceeded]

\* The outbound call ends with reply, lines 78-95.
ReceiveBackoffOnError(t, reply) ==
    /\ UNCHANGED <<url_vars, analytics_vars>>
    /\ pc[t] = "inflight"
    /\ outcomes' = [outcomes EXCEPT ![t] = Append(@, reply)]
    /\ IF reply # NetworkError /\ reply.status = 429
       THEN \* lines 80-83: start the backoff sleep
            /\ wake' = [wake EXCEPT ![t] = Backoff(attempt[t])]
            /\ slept' = [slept EXCEPT ![t] = @ + Backoff(attempt[t])]
            /\ pc' = [pc EXCEPT ![t] = "backoff"]
            /\ UNCHANGED <<attempt, result>>
       ELSE IF reply = NetworkError \/ RaiseForStatus(reply.status)
       THEN \* lines 92-95: RequestException caught
            /\ IF LastAttempt(attempt[t])
               THEN /\ result' = [result EXCEPT ![t] = [status |-> 500, body |-> "request error"]]
                    /\ pc' = [pc EXCEPT ![t] = "done"]
                    /\ UNCHANGED attempt
               ELSE /\ pc' = [pc EXCEPT ![t] = "backoff"]
                    /\ UNCHANGED <<attempt, result>>
            /\ IF LastAttempt(attempt[t])
               THEN UNCHANGED <<wake, slept>>
               ELSE /\ wake' = [wake EXCEPT ![t] = Backoff(attempt[t])]
                    /\ slept' = [slept EXCEPT ![t] = @ + Backoff(attempt[t])]
       ELSE \* lines 87-90
            /\ IF Falsy(reply.data)
               THEN result' = [result EXCEPT ![t] = [status |-> 502, body |-> "Empty response."]]
               ELSE result' = [result EXCEPT ![t] = [status |-> 200, body |-> reply.data]]
            /\ pc' = [pc EXCEPT ![t] = "done"]
            /\ UNCHANGED <<attempt, wake, slept>>
    /\ UNCHANGED <<RAPIDAPI_KEY, gate_vars, req_vars, gates>>

Receive(t, reply) ==
    /\ UNCHANGED <<url_vars, analytics_vars>>
    /\ pc[t] = "inflight"
    /\ outcomes' = [outcomes EXCEPT ![t] = Append(@, reply)]
    /\ IF reply # NetworkError /\ reply.status = 429
       THEN \* lines 80-83: start the backoff sleep
            /\ wake' = [wake EXCEPT ![t] = Backoff(attempt[t])]
            /\ slept' = [slept EXCEPT ![t] = @ + Backoff(attempt[t])]
            /\ pc' = [pc EXCEPT ![t] = "backoff"]
            /\ UNCHANGED <<attempt, result>>
       ELSE IF reply = NetworkError \/ RaiseForStatus(reply.status)
       THEN \* lines 92-95: RequestException caught
            /\ IF LastAttempt(attempt[t])
               THEN /\ result' = [result EXCEPT ![t] = [status |-> 500, body |-> "request error"]]
                    /\ pc' = [pc EXCEPT ![t] = "done"]
                    /\ UNCHANGED attempt
               ELSE NextAttempt(t)
            /\ UNCHANGED <<wake, slept>>
       ELSE \* lines 87-90
            /\ IF Falsy(reply.data)
               THEN result' = [result EXCEPT ![t] = [status |-> 502, body |-> "Empty response."]]
               ELSE result' = [result EXCEPT ![t] = [status |-> 200, body |-> reply.data]]
            /\ pc' = [pc EXCEPT ![t] = "done"]
            /\ UNCHANGED <<attempt, wake, slept>>
    /\ UNCHANGED <<RAPIDAPI_KEY, gate_vars, req_vars, gates>>

\* time.sleep(wait) returns, line 83; continue, line 84.
BackoffWake(t) ==
    /\ UNCHANGED <<url_vars, analytics_vars>>
    /\ pc[t] = "backoff"
    /\ wake[t] = 0
    /\ NextAttempt(t)
    /\ UNCHANGED <<RAPIDAPI_KEY, gate_vars, req_vars, wake, outcomes,
                   gates, slept>>

\* The handler returns (or the exception becomes the HTTP error response);
\* the thread is free to serve the next request.
Respond(t) ==
    /\ UNCHANGED <<url_vars, analytics_vars>>
    /\ pc[t] = "done"
    /\ pc' = [pc EXCEPT ![t] = "idle"]
    /\ route' = [route EXCEPT ![t] = "profile"]
    /\ header' = [header EXCEPT ![t] = None]
    /\ key_to_use' = [key_to_use EXCEPT ![t] = ""]
    /\ attempt' = [attempt EXCEPT ![t] = 0]
    /\ outcomes' = [outcomes EXCEPT ![t] = <<>>]
    /\ gates' = [gates EXCEPT ![t] = 0]
    /\ slept' = [slept EXCEPT ![t] = 0]
    /\ result' = [result EXCEPT ![t] = NoResult]
    /\ UNCHANGED <<RAPIDAPI_KEY, gate_vars, wake>>

\* One step of thread t, its requests drawn from routes and headers and the
\* upstream's answers from replies.
ThreadStep(t, routes, headers, replies) ==
    \/ \E r \in routes, h \in headers, blank \in BOOLEAN : Dispatch(t, r, h, blank)
    \/ RateLimitCheck(t)
    \/ RateLimitWake(t)
    \/ RateLimitStamp(t)
    \/ SendRequest(t)
    \/ \E reply \in replies : Receive(t, reply)
    \/ BackoffWake(t)
    \/ Respond(t)

\* One caller: requests of any route and header, served one after another.
Next ==
    \/ Tick
    \/ ThreadStep(MainThread, Routes, HeaderValues, Replies)

Spec == Init /\ [][Next]_vars

\* What the running dispatch of thread t does next. The thread is scheduled,
\* the clock advances, and requests.get returns or raises within its timeout.
Progress(t) ==
    \/ RateLimitCheck(t)
    \/ RateLimitWake(t)
    \/ RateLimitStamp(t)
    \/ SendRequest(t)
    \/ \E reply \in Replies : Receive(t, reply)
    \/ BackoffWake(t)

SpecFair == Spec /\ WF_vars(Tick) /\ WF_vars(Progress(MainThread))

\* Concurrent requests, each in its own thread: one thread-pool route and the
\* event-loop route, with a header key, the upstream answering with a
\* payload, a 429 or a network failure.
ConcRoutes == {"profile", "reactions"}
ConcHeaders == {"hdr-key"}
ConcReplies == {[status |-> 200, data |-> "P1"], [status |-> 429, data |-> "null"], NetworkError}

NextConc ==
    \/ Tick
    \/ \E t \in Threads : ThreadStep(t, ConcRoutes, ConcHeaders, ConcReplies)

SpecConc == Init /\ [][NextConc]_vars

\* ---------------------------------------------------------- URL Normalizer
\* clean_linkedin_url, lines 58-60, with urllib.parse's urlparse and
\* urlunparse as CPython 3.11 defines them. A URL is a sequence of tokens:
\* "h" stands for the text "http" and "x" for any other run of letters, the
\* rest are the delimiters themselves.
MaxUrlLen == 4
UrlTokens == {"h", "x", ":", "/", "?", "#", ";"}
\* scheme_chars: letters, digits, "+", "-", "."
SchemeTokens == {"h", "x"}
\* uses_netloc and uses_params both hold "" and "http".
UsesNetloc == {<<>>, <<"h">>}
UsesParams == {<<>>, <<"h">>}
UrlInputs == UNION {[1..n -> UrlTokens] : n \in 0..MaxUrlLen}

\* str.find(c, start) with 1-based positions; 0 when c is not found.
Find(s, c, start) ==
    LET hits == {i \in start..Len(s) : s[i] = c}
    IN IF hits = {} THEN 0 ELSE CHOOSE i \in hits : \A j \in hits : i <= j
\* str.rfind(c), 1-based; 0 when c is not found.
RFind(s, c) ==
    LET hits == {i \in 1..Len(s) : s[i] = c}
    IN IF hits = {} THEN 0 ELSE CHOOSE i \in hits : \A j \in hits : i >= j
\* s[i-1:] and s[:i-1] of Python, for a 1-based position i.
From(s, i) == SubSeq(s, i, Len(s))
Upto(s, i) == SubSeq(s, 1, i - 1)
StartsWithSlashes(s) == Len(s) >= 2 /\ s[1] = "/" /\ s[2] = "/"

\* _splitnetloc(url, 2): the netloc ends at the first of "/", "?", "#".
SplitNetloc(url) ==
    LET ends == {i \in 3..Len(url) : url[i] \in {"/", "?", "#"}}
        delim == IF ends = {} THEN Len(url) + 1
                 ELSE CHOOSE i \in ends : \A j \in ends : i <= j
    IN [netloc |-> SubSeq(url, 3, delim - 1), rest |-> From(url, delim)]

\* urlsplit(url)
UrlSplit(url) ==
    LET i == Find(url, ":", 1)
        has_scheme == /\ i > 1
                      /\ url[1] \in SchemeTokens
                      /\ \A k \in 1..(i - 1) : url[k] \in SchemeTokens
        scheme == IF has_scheme THEN Upto(url, i) ELSE <<>>
        u1 == IF has_scheme THEN From(url, i + 1) ELSE url
        nl == IF StartsWithSlashes(u1) THEN SplitNetloc(u1)
              ELSE [netloc |-> <<>>, rest |-> u1]
        f == Find(nl.rest, "#", 1)
        fragment == IF f > 0 THEN From(nl.rest, f + 1) ELSE <<>>
        u2 == IF f > 0 THEN Upto(nl.rest, f) ELSE nl.rest
        q == Find(u2, "?", 1)
        query == IF q > 0 THEN From(u2, q + 1) ELSE <<>>
        u3 == IF q > 0 THEN Upto(u2, q) ELSE u2
    IN [scheme |-> scheme, netloc |-> nl.netloc, path |-> u3,
        query |-> query, fragment |-> fragment]

\* _splitparams(url)
SplitParams(url) ==
    LET slash == RFind(url, "/")
        i == IF slash > 0 THEN Find(url, ";", slash) ELSE Find(url, ";", 1)
    IN IF i = 0 THEN [path |-> url, params |-> <<>>]
       ELSE [path |-> Upto(url, i), params |-> From(url, i + 1)]

\* urlparse(url)
UrlParse(url) ==
    LET sp == UrlSplit(url)
        pp == IF sp.scheme \in UsesParams /\ Find(sp.path, ";", 1) > 0
              THEN SplitParams(sp.path)
              ELSE [path |-> sp.path, params |-> <<>>]
    IN [scheme |-> sp.scheme, netloc |-> sp.netloc, path |-> pp.path,
        params |-> pp.params, query |-> sp.query, fragment |-> sp.fragment]

\* urlunsplit((scheme, netloc, url, query, fragment))
UrlUnsplit(scheme, netloc, path, query, fragment) ==
    LET authority == \/ netloc # <<>>
                     \/ (scheme # <<>> /\ scheme \in UsesNetloc
                         /\ ~StartsWithSlashes(path))
        u1 == IF authority
              THEN <<"/", "/">> \o netloc
                   \o (IF path # <<>> /\ path[1] # "/" THEN <<"/">> ELSE <<>>)
                   \o path
              ELSE path
        u2 == IF scheme # <<>> THEN scheme \o <<":">> \o u1 ELSE u1
        u3 == IF query # <<>> THEN u2 \o <<"?">> \o query ELSE u2
    IN IF fragment # <<>> THEN u3 \o <<"#">> \o fragment ELSE u3

\* urlunparse(components)
UrlUnparse(c) ==
    UrlUnsplit(c.scheme, c.netloc,
               IF c.params # <<>> THEN c.path \o <<";">> \o c.params ELSE c.path,
               c.query, c.fragment)

\* clean_linkedin_url(url)
clean_linkedin_url(url) == UrlUnparse([UrlParse(url) EXCEPT !.query = <<>>])

InitUrl ==
    /\ InitDispatcher
    /\ InitAnalyticsIdle
    /\ post_url \in UrlInputs
    /\ clean_url = <<>>
    /\ url_pc = "raw"

\* clean_url = clean_linkedin_url(post_url), lines 117 and 126.
NormalizeUrl ==
    /\ url_pc = "raw"
    /\ clean_url' = clean_linkedin_url(post_url)
    /\ url_pc' = "clean"
    /\ UNCHANGED <<post_url, dispatcher_vars, analytics_vars>>

NextUrl == NormalizeUrl

SpecUrl == InitUrl /\ [][NextUrl]_vars

\* --------------------------------------------------------------- analytics
\* comment_analytics, lines 128-142. A comment record is modelled by its
\* author.name (None when the record has no author or no name); its
\* stats.total_reactions and the average over them are left out.
MaxComments == 6
\* most_common(5)
TopN == 5
CommenterNames == {"A", "B", "C", "D", "E", "F"}
CommentLists == UNION {[1..n -> CommenterNames \cup {None}] : n \in 0..MaxComments}

\* authors = [name for c in comments if name], line 132
RECURSIVE Authors(_)
Authors(cs) ==
    IF cs = <<>> THEN <<>>
    ELSE IF Truthy(Head(cs)) THEN <<Head(cs)>> \o Authors(Tail(cs))
    ELSE Authors(Tail(cs))

\* The keys of Counter(authors), in insertion (first seen) order.
RECURSIVE CounterKeys(_, _)
CounterKeys(authors, seen) ==
    IF authors = <<>> THEN <<>>
    ELSE IF Head(authors) \in seen THEN CounterKeys(Tail(authors), seen)
    ELSE <<Head(authors)>> \o CounterKeys(Tail(authors), seen \cup {Head(authors)})

\* Counter(authors)[name]
Count(authors, name) == Cardinality({i \in 1..Len(authors) : authors[i] = name})

\* Counter(authors).items(): (name, count) pairs in insertion order.
CounterItems(authors) ==
    LET keys == CounterKeys(authors, {})
    IN [i \in 1..Len(keys) |-> <<keys[i], Count(authors, keys[i])>>]

\* Whether item stays behind an item already placed: the sort by count,
\* descending, is stable, so an equal count does not overtake.
StaysBehindStrict(placed, item) == placed[2] > item[2]
StaysBehind(placed, item) == placed[2] >= item[2]

\* One step of the stable descending sort: item goes after every placed
\* item it stays behind.
RECURSIVE InsertByCount(_, _)
InsertByCount(sorted, item) ==
    IF sorted = <<>> THEN <<item>>
    ELSE IF StaysBehind(Head(sorted), item)
    THEN <<Head(sorted)>> \o InsertByCount(Tail(sorted), item)
    ELSE <<item>> \o sorted

\* sorted(items, key=count, reverse=True)
RECURSIVE SortByCount(_, _)
SortByCount(items, sorted) ==
    IF items = <<>> THEN sorted
    ELSE SortByCount(Tail(items), InsertByCount(sorted, Head(items)))

\* Counter(authors).most_common(n)
MostCommon(authors, n) ==
    LET all == SortByCount(CounterItems(authors), <<>>)
    IN SubSeq(all, 1, IF Len(all) < n THEN Len(all) ELSE n)

\* The value comment_analytics returns for comments, lines 129-142.
Summarize(cs) ==
    IF cs = <<>>
    THEN [success |-> FALSE, error |-> "No comments found"]
    ELSE LET authors == Authors(cs) IN
         [success |-> TRUE,
          total_comments |-> Len(cs),
          unique_commenters |-> Cardinality({authors[i] : i \in 1..Len(authors)}),
          top_commenters |-> MostCommon(authors, TopN)]

InitAnalytics ==
    /\ InitDispatcher
    /\ InitUrlIdle
    /\ comments \in CommentLists
    /\ summary = NoSummary

\* comment_analytics runs on the fetched comments.
Analyze ==
    /\ summary = NoSummary
    /\ summary' = Summarize(comments)
    /\ UNCHANGED <<comments, dispatcher_vars, url_vars>>

NextAnalytics == Analyze

SpecAnalytics == InitAnalytics /\ [][NextAnalytics]_vars

\* ------------------------------------------------------------------ claims
Status(t, i) == outcomes[t][i].status
Statuses(t) == [i \in 1..Len(outcomes[t]) |-> Status(t, i)]
\* Between the end of one attempt and the next outbound call's reply.
Retrying(t) == pc[t] \in {"rate_limit", "sleeping", "stamp", "send", "inflight"}

\* C1: under any interleaving of concurrent dispatches, no two outbound calls
\* are released by the rate gate less than min_interval apart: every stamp
\* of last_call_time is at least min_interval after the one before it.
\* (The statement of the claim; the code violates it.)
C1_ConcurrentCallsSpaced == stamp_gap >= MinInterval

\* C2: for one caller making rate_limit calls one after another, the values
\* stored in last_call_time by consecutive calls differ by at least
\* min_interval.
C2_SequentialStampsSpaced ==
    gates[MainThread] >= 1 => stamp_gap >= MinInterval
\* The third rate_limit call of a dispatch has just stamped, after a retry
\* that followed a network error at once.
C2_Witness ==
    /\ pc[MainThread] = "send"
    /\ gates[MainThread] = 3
    /\ last_call_time = Now
    /\ outcomes[MainThread][2] = NetworkError

\* C3: a dispatch that meets 429 on all three attempts makes no fourth
\* outbound call, never succeeds, and ends with HTTP 429 (QuotaExceeded).
C3_ThreeThrottlesQuotaExceeded ==
    \A t \in Threads :
        Statuses(t) = <<429, 429, 429>> =>
            /\ pc[t] \in {"backoff", "done"}
            /\ pc[t] = "backoff" => result[t] = NoResult
            /\ pc[t] = "done" => result[t].status = 429
C3_Witness ==
    /\ pc[MainThread] = "done"
    /\ Statuses(MainThread) = <<429, 429, 429>>
    /\ result[MainThread].status = 429
    /\ gates[MainThread] = 3

\* C4: 429, 429, then 200 with a non-empty payload: the dispatch succeeds
\* at the third attempt with that payload, and the backoff it asked for is
\* 1 s + 2 s (5 + 10 ticks).
C4_TwoThrottlesThenSuccess ==
    \A t \in Threads :
        (Statuses(t) = <<429, 429, 200>> /\ outcomes[t][3].data \in Payloads) =>
            /\ pc[t] = "done"
            /\ result[t] = [status |-> 200, body |-> outcomes[t][3].data]
            /\ slept[t] = 5 + 10
C4_Witness ==
    /\ Statuses(MainThread) = <<429, 429, 200>>
    /\ result[MainThread] = [status |-> 200, body |-> "P2"]
    /\ slept[MainThread] = 15

\* C5: on every route, a request with neither a non-empty header key nor a
\* non-empty default key fails with HTTP 400 with no rate_limit call and no
\* outbound call made.
C5_MissingCredentialRejected ==
    \A t \in Threads :
        (pc[t] # "idle" /\ ~Truthy(header[t]) /\ ~Truthy(RAPIDAPI_KEY)) =>
            /\ pc[t] = "done"
            /\ result[t].status = 400
            /\ gates[t] = 0
            /\ outcomes[t] = <<>>
C5_Witness ==
    /\ route[MainThread] = "reactions"
    /\ header[MainThread] = ""
    /\ RAPIDAPI_KEY = ""
    /\ result[MainThread] = [status |-> 400, body |-> "Missing RapidAPI key."]

\* C6 as claimed: an error status other than 429 ends the dispatch at that
\* attempt with a failure carrying that status.
C6_ErrorStatusFailsAtOnce ==
    \A t \in Threads : \A i \in 1..Len(outcomes[t]) :
        Status(t, i) \in ErrorStatuses =>
            /\ i = Len(outcomes[t])
            /\ pc[t] = "done"
            /\ result[t].status = Status(t, i)
\* C6 as amended: an error status other than 429 is handled like a network
\* error: on attempt 1 or 2 the dispatch goes on to the next attempt with no
\* backoff, on attempt 3 it fails with HTTP 500.
C6_ErrorStatusRetried ==
    \A t \in Threads : \A i \in 1..Len(outcomes[t]) :
        (Status(t, i) \in ErrorStatuses /\ i = Len(outcomes[t])) =>
            IF i = 3
            THEN pc[t] = "done" /\ result[t].status = 500
            ELSE /\ Retrying(t)
                 /\ attempt[t] = i
                 /\ result[t] = NoResult
C6_Witness ==
    /\ Statuses(MainThread) = <<404, 500, 404>>
    /\ pc[MainThread] = "done"
    /\ result[MainThread].status = 500

\* C7: a 200 whose decoded body is empty or null ends the dispatch at that
\* attempt with HTTP 502; it is not retried and not returned as a success.
C7_EmptyBodyIs502 ==
    \A t \in Threads : \A i \in 1..Len(outcomes[t]) :
        (Status(t, i) = 200 /\ outcomes[t][i].data \in FalsyData) =>
            /\ i = Len(outcomes[t])
            /\ pc[t] = "done"
            /\ result[t] = [status |-> 502, body |-> "Empty response."]
C7_Witness ==
    /\ outcomes[MainThread] = <<[status |-> 200, data |-> "{}"]>>
    /\ pc[MainThread] = "done"
    /\ result[MainThread].status = 502

\* C8: a network failure on attempt 1 or 2 is followed by the next attempt
\* and is not surfaced; HTTP 500 is reported only at the third attempt, and
\* three network failures end in HTTP 500 after three outbound calls.
C8_NetworkErrorRetried ==
    \A t \in Threads :
        /\ \A i \in 1..Len(outcomes[t]) :
              (outcomes[t][i] = NetworkError /\ i = Len(outcomes[t])) =>
                  IF i = 3
                  THEN pc[t] = "done" /\ result[t].status = 500
                  ELSE Retrying(t) /\ result[t] = NoResult
        /\ result[t].status = 500 => Len(outcomes[t]) = 3
C8_Witness ==
    /\ outcomes[MainThread] = <<NetworkError, NetworkError, NetworkError>>
    /\ pc[MainThread] = "done"
    /\ result[MainThread].status = 500
    /\ gates[MainThread] = 3

\* C9: no thread waits at the rate gate for another thread's outbound call:
\* whatever the other threads are doing, a thread at rate_limit can take
\* its reading, it is told to sleep at most min_interval, it can stamp as
\* soon as that sleep is over and issue its call after the stamp.
C9_GateNotHeldDuringCall ==
    \A t \in Threads :
        /\ pc[t] = "rate_limit" => ENABLED RateLimitCheck(t)
        /\ pc[t] = "sleeping" => wake[t] <= MinInterval
        /\ (pc[t] = "sleeping" /\ wake[t] = 0) => ENABLED RateLimitWake(t)
        /\ pc[t] = "stamp" => ENABLED RateLimitStamp(t)
        /\ pc[t] = "send" => ENABLED SendRequest(t)
\* Two outbound calls in progress at once, the second released by the gate
\* min_interval or more after the first.
C9_Witness ==
    /\ \A t \in Threads : pc[t] = "inflight" /\ gates[t] = 1
    /\ stamp_gap >= MinInterval
    /\ last_call_time > Floor

\* C10: the credential of a dispatch is the header value when that is
\* non-empty and the default RAPIDAPI_KEY otherwise, on every route; the
\* missing-key failure happens only when both are absent or empty.
C10_CredentialResolution ==
    \A t \in Threads :
        (pc[t] # "idle" /\ result[t].body # "Missing post_url") =>
            /\ Truthy(header[t]) =>
                  key_to_use[t] = header[t] /\ result[t].status # 400
            /\ (~Truthy(header[t]) /\ Truthy(RAPIDAPI_KEY)) =>
                  key_to_use[t] = RAPIDAPI_KEY /\ result[t].status # 400
            /\ result[t].status = 400 =>
                  ~Truthy(header[t]) /\ ~Truthy(RAPIDAPI_KEY)
C10_Witness ==
    /\ route[MainThread] = "reactions"
    /\ header[MainThread] = ""
    /\ RAPIDAPI_KEY = "env-key"
    /\ pc[MainThread] = "inflight"
    /\ key_to_use[MainThread] = "env-key"

\* C11: for every URL, clean_linkedin_url returns the URL with an empty
\* query and every other component as urlparse found it in the input, and
\* normalizing the result again changes nothing.
\* (The statement of the claim; the code violates it.)
C11_QueryRemovedOthersKept ==
    url_pc = "clean" =>
        /\ UrlParse(clean_url) = [UrlParse(post_url) EXCEPT !.query = <<>>]
        /\ clean_linkedin_url(clean_url) = clean_url

\* C12: for a non-empty comment list the summary has total_comments = the
\* number of records, unique_commenters = the number of distinct names, and
\* top_commenters = the at most 5 most frequent names with their counts, in
\* descending count order, equal counts in first-seen order.
Occurrences(name) == Cardinality({i \in 1..Len(comments) : comments[i] = name})
FirstSeenAt(name) ==
    CHOOSE i \in 1..Len(comments) :
        comments[i] = name /\ \A j \in 1..(i - 1) : comments[j] # name
RanksBefore(a, b) ==
    \/ Occurrences(a) > Occurrences(b)
    \/ Occurrences(a) = Occurrences(b) /\ FirstSeenAt(a) < FirstSeenAt(b)
C12_AnalyticsSummary ==
    (comments # <<>> /\ summary # NoSummary) =>
        LET names == {comments[i] : i \in 1..Len(comments)} \ {None}
            top == summary.top_commenters
            listed == {top[i][1] : i \in 1..Len(top)}
        IN /\ summary.success
           /\ summary.total_comments = Len(comments)
           /\ summary.unique_commenters = Cardinality(names)
           /\ Len(top) = (IF Cardinality(names) < 5 THEN Cardinality(names) ELSE 5)
           /\ listed \subseteq names
           /\ \A i \in 1..Len(top) : top[i][2] = Occurrences(top[i][1])
           /\ \A i, j \in 1..Len(top) : i < j => RanksBefore(top[i][1], top[j][1])
           /\ \A n \in names \ listed : \A m \in listed : RanksBefore(m, n)
\* Six commenters with one comment each: the first five seen are reported,
\* in the order seen.
C12_Witness ==
    /\ comments = <<"F", "E", "D", "C", "B", "A">>
    /\ summary.success
    /\ summary.unique_commenters = 6
    /\ summary.top_commenters =
         <<(<<"F", 1>>), (<<"E", 1>>), (<<"D", 1>>), (<<"C", 1>>), (<<"B", 1>>)>>

\* Outbound calls the current dispatch of t has begun.
Calls(t) == Len(outcomes[t]) + (IF pc[t] = "inflight" THEN 1 ELSE 0)
\* Whether the i-th outbound call of t ended in a caught RequestException.
RequestError(t, i) ==
    outcomes[t][i] = NetworkError \/ Status(t, i) \in ErrorStatuses

\* C13: within a dispatch every outbound call has its own rate_limit call
\* returned before it: the calls begun never outnumber the gate passes, a
\* gate pass is ahead of the calls only while its call is about to be
\* issued, and a finished dispatch has as many passes as calls.
C13_GateBeforeEveryCall ==
    \A t \in Threads :
        /\ Calls(t) <= gates[t]
        /\ gates[t] <= Calls(t) + 1
        /\ gates[t] = Calls(t) + 1 <=> pc[t] = "send"
C13_Witness ==
    /\ pc[MainThread] = "inflight"
    /\ gates[MainThread] = 3
    /\ Statuses(MainThread) = <<429, 0>>

\* C14: a dispatch never begins a fourth outbound call or attempt, ends
\* only in a success or a failure status, and once it has entered the retry
\* loop it reaches its end.
C14_DispatchTerminates ==
    /\ [](\A t \in Threads :
            /\ Calls(t) <= 3
            /\ gates[t] <= 3
            /\ pc[t] = "done" => result[t].status \in {200, 400, 429, 500, 502})
    /\ \A t \in Threads : (pc[t] = "rate_limit") ~> (pc[t] = "done")
C14_Witness ==
    /\ pc[MainThread] = "done"
    /\ Statuses(MainThread) = <<429, 0, 404>>
    /\ result[MainThread].status = 500

\* The backoff owed for the 429 replies met so far: 2^(i-1) s for the i-th
\* call (5 ticks to the second).
RECURSIVE ThrottleBackoff(_, _)
ThrottleBackoff(t, n) ==
    IF n = 0 THEN 0
    ELSE ThrottleBackoff(t, n - 1)
         + (IF Status(t, n) = 429 THEN 5 * (2 ^ (n - 1)) ELSE 0)

\* C15: a 429 on 0-indexed attempt k is followed at once by a sleep of 2^k
\* seconds, nothing else happening in that attempt, the third attempt
\* included: three 429s cost 1 + 2 + 4 = 7 s (35 ticks) of backoff, the last
\* 4 s before QuotaExceeded is reported.
C15_BackoffAfterEvery429 ==
    \A t \in Threads :
        LET n == Len(outcomes[t]) IN
        /\ slept[t] = ThrottleBackoff(t, n)
        /\ (n >= 1 /\ Status(t, n) = 429 /\ attempt[t] = n - 1) =>
               /\ pc[t] = "backoff"
               /\ wake[t] <= 5 * (2 ^ attempt[t])
               /\ result[t] = NoResult
        /\ pc[t] = "backoff" => (n >= 1 /\ Status(t, n) = 429 /\ attempt[t] = n - 1)
        /\ (Statuses(t) = <<429, 429, 429>> /\ pc[t] = "done") => slept[t] = 35
C15_Witness ==
    /\ Statuses(MainThread) = <<429, 429, 429>>
    /\ pc[MainThread] = "backoff"
    /\ wake[MainThread] = 20
    /\ slept[MainThread] = 35

\* C16: a dispatch that ends after three attempts without a 200 reports
\* what the third attempt alone met: 429 for a 429, 500 for a request error,
\* whatever the first two attempts met; and 429 is reported in no other case.
C16_ThirdAttemptDecides ==
    \A t \in Threads :
        /\ (pc[t] = "done" /\ Len(outcomes[t]) = 3) =>
              /\ Status(t, 3) = 429 => result[t].status = 429
              /\ RequestError(t, 3) => result[t].status = 500
        /\ result[t].status = 429 => (Len(outcomes[t]) = 3 /\ Status(t, 3) = 429)
C16_Witness ==
    /\ pc[MainThread] = "done"
    /\ Statuses(MainThread) = <<0, 404, 429>>
    /\ result[MainThread].status = 429

\* C17: after a request error on attempt 1 or 2 the dispatch goes straight to
\* the rate gate: it is never in a backoff sleep, no backoff is added, and
\* the only sleep it can be in is the gate's, of at most min_interval; after
\* a 429 the retry has the backoff behind it and still passes the gate
\* before its call.
C17_NoBackoffAfterRequestError ==
    \A t \in Threads :
        LET n == Len(outcomes[t]) IN
        /\ (n \in {1, 2} /\ RequestError(t, n)) =>
              /\ pc[t] \in {"rate_limit", "sleeping", "stamp", "send", "inflight"}
              /\ pc[t] = "sleeping" => wake[t] <= MinInterval
              /\ slept[t] = (IF n = 2 /\ Status(t, 1) = 429 THEN 5 ELSE 0)
        /\ (n \in {1, 2} /\ Status(t, n) = 429 /\ pc[t] # "backoff") =>
              /\ slept[t] >= 5 * (2 ^ (n - 1))
              /\ pc[t] \in {"send", "inflight"} => gates[t] = n + 1
              /\ pc[t] \in {"rate_limit", "sleeping", "stamp"} => gates[t] = n
C17_Witness ==
    /\ outcomes[MainThread] = <<NetworkError>>
    /\ pc[MainThread] = "sleeping"
    /\ wake[MainThread] = MinInterval
    /\ slept[MainThread] = 0

====
